---- MODULE Spec2Model ----
(***************************************************************************)
(* Model of net/ghttp/ghttp_client_request.go: Client.DoRequest,           *)
(* Client.prepareRequest and Client.callRequest.                           *)
(*                                                                         *)
(* Strings are sequences of tokens.  A token is one byte, except MARK,     *)
(* which stands for the six bytes of the literal "@file:" (the bytes of    *)
(* that literal occur in the modelled inputs only as that literal), so     *)
(* byte lengths are measured with ByteLen.                                 *)
(***************************************************************************)
EXTENDS Integers, Sequences, FiniteSets, TLC

\* ------------------------------------------------------------------ bounds
MaxRetry == 2          \* largest configured retry count
MaxCalls == 2          \* DoRequest calls made one after another on a client
MaxCookies == 2        \* Set-Cookie entries carried by one response
MaxInterceptors == 2   \* configured client middleware handlers
MaxTime == 2           \* clock values (cookie expiry, time.Now)
MaxParamLen == 3       \* tokens of a string payload (SpecPrepare)
MaxUrlLen == 2         \* tokens of a url argument (SpecPrepare)

\* ----------------------------------------------------------------- strings
MARK == "@file:"

TokLen(t) == IF t = MARK THEN 6 ELSE 1

RECURSIVE ByteLen(_)
ByteLen(s) == IF s = <<>> THEN 0 ELSE TokLen(Head(s)) + ByteLen(Tail(s))

\* strings.Contains / gstr.Contains for a one-token needle
Contains(s, t) == \E i \in 1..Len(s) : s[i] = t

\* strings.Split(s, sep) for a one-token separator: always at least one piece
RECURSIVE Split(_, _)
Split(s, sep) ==
    IF ~Contains(s, sep) THEN <<s>>
    ELSE LET i == CHOOSE k \in 1..Len(s) :
                      s[k] = sep /\ \A j \in 1..(k - 1) : s[j] # sep
         IN  <<SubSeq(s, 1, i - 1)>> \o Split(SubSeq(s, i + 1, Len(s)), sep)

\* gstr.Trim: strips white space from both ends
RECURSIVE TrimLeft(_)
TrimLeft(s) == IF s # <<>> /\ Head(s) = " " THEN TrimLeft(Tail(s)) ELSE s

RECURSIVE TrimRight(_)
TrimRight(s) ==
    IF s # <<>> /\ s[Len(s)] = " " THEN TrimRight(SubSeq(s, 1, Len(s) - 1)) ELSE s

Trim(s) == TrimRight(TrimLeft(s))

\* strings.ToUpper on the modelled method names
ToUpper(m) ==
    CASE m = "get" -> "GET"
      [] m = "post" -> "POST"
      [] m = "bad method" -> "BAD METHOD"
      [] OTHER -> m

SeqsUpTo(S, n) == UNION {[1..k -> S] : k \in 0..n}

\* ------------------------------------------------------------ file system
\* The files the upload convention can name.  gfile.Exists is true of every
\* status but "absent"; os.Open fails on "locked"; io.Copy fails on "dir".
FileStatus(path) ==
    CASE path = <<"p">> -> "file"
      [] path = <<"p", "p">> -> "dir"
      [] path = <<"a", "p">> -> "locked"
      [] OTHER -> "absent"

Exists(path) == FileStatus(path) # "absent"

FileContent(path) == <<"#">> \o path

\* gfile.Basename: the modelled paths hold no separator, so the base name is
\* the whole path
Basename(path) == path

\* --------------------------------------------------------------- payloads
\* data ...interface{}: <<>> (no argument) or a one-element sequence holding a
\* string, a byte slice, a one-entry map k -> v, or a func value (which no
\* marshaler accepts).
StrData(s) == [kind |-> "string", s |-> s, k |-> <<>>, v |-> <<>>]
BytesData(s) == [kind |-> "bytes", s |-> s, k |-> <<>>, v |-> <<>>]
MapData(k, v) == [kind |-> "map", s |-> <<>>, k |-> k, v |-> v]
FuncData == [kind |-> "func", s |-> <<>>, k |-> <<>>, v |-> <<>>]

Q == "\""

\* gconv.String of a string or []byte: the same bytes
GconvString(d) == d.s

\* json.Marshal of the one-entry map: {"k":"v"}
JsonMarshal(d) ==
    IF d.kind = "func" THEN [ok |-> FALSE, out |-> <<>>]
    ELSE [ok |-> TRUE,
          out |-> <<"{", Q>> \o d.k \o <<Q, ":", Q>> \o d.v \o <<Q, "}">>]

\* gparser.VarToXml of the one-entry map: <k>v</k>
VarToXml(d) ==
    IF d.kind = "func" THEN [ok |-> FALSE, out |-> <<>>]
    ELSE [ok |-> TRUE,
          out |-> <<"<">> \o d.k \o <<">">> \o d.v \o <<"<", "/">> \o d.k \o <<">">>]

\* BuildParams: a string or []byte is returned as it is, a map is flattened
\* to key=value, anything else has no fields
BuildParams(d) ==
    CASE d.kind \in {"string", "bytes"} -> GconvString(d)
      [] d.kind = "map" -> d.k \o <<"=">> \o d.v
      [] OTHER -> <<>>

\* ---------------------------------------------------------------- headers
Plain(s) == [v |-> s, boundary |-> "", pairs |-> {}]

EmptyHeader == [k \in {} |-> Plain("")]

\* http.Header.Set
HeaderSet(h, key, val) ==
    [k \in DOMAIN h \cup {key} |-> IF k = key THEN val ELSE h[k]]

\* http.Header.Get: "" when the key is absent
HeaderGet(h, key) == IF key \in DOMAIN h THEN h[key].v ELSE ""

\* multipart.Writer.FormDataContentType
FormDataContentType(boundary) ==
    [v |-> "multipart/form-data", boundary |-> boundary, pairs |-> {}]

\* The Cookie header built from the store: name=value joined by ";" in the
\* order of Go's map iteration, which is unspecified, so the value is kept as
\* the set of pairs
HeaderCookie(cookies) ==
    [v |-> "cookie", boundary |-> "",
     pairs |-> {<<k, cookies[k]>> : k \in DOMAIN cookies}]

\* http.Request.SetBasicAuth
BasicAuth(user, pass) ==
    [v |-> "Basic", boundary |-> "", pairs |-> {<<user, pass>>}]

\* --------------------------------------------------------------- sniffing
\* json.Valid over the tokens { } [ ] : , " and 1 (a digit).  Each operator
\* yields the rests of s left after one value (member list, element list).
JsonStr(s) ==
    IF s # <<>> /\ Head(s) = Q /\ Contains(Tail(s), Q)
    THEN LET i == CHOOSE k \in 2..Len(s) :
                      s[k] = Q /\ \A j \in 2..(k - 1) : s[j] # Q
         IN  {SubSeq(s, i + 1, Len(s))}
    ELSE {}

JsonNum(s) ==
    {SubSeq(s, k + 1, Len(s)) :
        k \in {n \in 1..Len(s) : \A j \in 1..n : s[j] = "1"}}

RECURSIVE JsonVal(_), JsonMembers(_), JsonElems(_)
JsonVal(s) ==
    JsonStr(s) \cup JsonNum(s)
    \cup (IF s # <<>> /\ Head(s) = "{"
          THEN (IF Len(s) >= 2 /\ s[2] = "}" THEN {SubSeq(s, 3, Len(s))} ELSE {})
               \cup JsonMembers(Tail(s))
          ELSE {})
    \cup (IF s # <<>> /\ Head(s) = "["
          THEN (IF Len(s) >= 2 /\ s[2] = "]" THEN {SubSeq(s, 3, Len(s))} ELSE {})
               \cup JsonElems(Tail(s))
          ELSE {})

JsonMembers(s) ==
    UNION {IF r # <<>> /\ Head(r) = ":"
           THEN UNION {IF r2 = <<>> THEN {}
                       ELSE IF Head(r2) = "}" THEN {Tail(r2)}
                       ELSE IF Head(r2) = "," THEN JsonMembers(Tail(r2))
                       ELSE {} : r2 \in JsonVal(Tail(r))}
           ELSE {} : r \in JsonStr(s)}

JsonElems(s) ==
    UNION {IF r = <<>> THEN {}
           ELSE IF Head(r) = "]" THEN {Tail(r)}
           ELSE IF Head(r) = "," THEN JsonElems(Tail(r))
           ELSE {} : r \in JsonVal(s)}

JsonValid(s) == <<>> \in JsonVal(s)

\* a byte of the regular expression class [\w\[\]]
IsWord(t) == t \in {"a", "b", "f", "p", "1", "[", "]"}

\* the line feed, the one byte "." of a regular expression does not match
NL == "\n"

\* gregex.IsMatchString(`^[\w\[\]]+=.+`, s)
IsFormShaped(s) ==
    \E k \in 1..(Len(s) - 2) :
        /\ \A j \in 1..k : IsWord(s[j])
        /\ s[k + 1] = "="
        /\ s[k + 2] # NL

\* --------------------------------------------------------- prepareRequest
RawBody(bytes) ==
    [kind |-> "raw", bytes |-> bytes, boundary |-> "", parts |-> <<>>]

MultipartBody(boundary, parts) ==
    [kind |-> "multipart", bytes |-> <<>>, boundary |-> boundary, parts |-> parts]

NoRequest ==
    [method |-> "", url |-> <<>>, body |-> RawBody(<<>>), header |-> EmptyHeader,
     host |-> "", ctx |-> ""]

Built(req) == [outcome |-> "ok", err |-> "", req |-> req]
Failed(err) == [outcome |-> "error", err |-> err, req |-> NoRequest]
Panicked(err) == [outcome |-> "panic", err |-> err, req |-> NoRequest]

\* http.NewRequest rejects a method that is no token
ValidMethod(method) == method # "BAD METHOD"

\* the host of the url's authority: the token "h" stands for "http://h"
UrlHost(url) == IF Contains(url, "h") THEN "h" ELSE ""

\* http.NewRequest
NewRequest(method, url, body) ==
    [method |-> method, url |-> url, body |-> body, header |-> EmptyHeader,
     host |-> UrlHost(url), ctx |-> ""]

\* lines 152-154
PrefixUrl(prefix, url) == IF Len(prefix) > 0 THEN prefix \o Trim(url) ELSE url

\* lines 155-183: the body string, or the marshaler's error
EncodeParam(contentType, data) ==
    IF Len(data) = 0 THEN [ok |-> TRUE, param |-> <<>>]
    ELSE CASE contentType = "application/json" ->
                IF data[1].kind \in {"string", "bytes"}
                THEN [ok |-> TRUE, param |-> GconvString(data[1])]
                ELSE [ok |-> JsonMarshal(data[1]).ok, param |-> JsonMarshal(data[1]).out]
           [] contentType = "application/xml" ->
                IF data[1].kind \in {"string", "bytes"}
                THEN [ok |-> TRUE, param |-> GconvString(data[1])]
                ELSE [ok |-> VarToXml(data[1]).ok, param |-> VarToXml(data[1]).out]
           [] OTHER -> [ok |-> TRUE, param |-> BuildParams(data[1])]

\* the query is always introduced by "?"
GetUrlAlwaysQuestion(url, param) ==
    IF param # <<>> THEN url \o <<"?">> \o param ELSE url

\* lines 186-192
GetUrl(url, param) ==
    IF param # <<>>
    THEN IF Contains(url, "?") THEN url \o <<"&">> \o param
         ELSE url \o <<"?">> \o param
    ELSE url

FilePart(name, filename, content) ==
    [kind |-> "file", name |-> name, filename |-> filename, content |-> content]

FieldPart(name, value) ==
    [kind |-> "field", name |-> name, filename |-> <<>>, content |-> value]

\* lines 203: len(array[1]) > 6 && array[1][0:6] == "@file:"
IsFileValue(value) == ByteLen(value) > 6 /\ Head(value) = MARK

\* lines 201-230: the parts written for the items, in order; array[1] of an
\* item that holds no "=" is out of range
RECURSIVE WriteParts(_, _)
WriteParts(items, parts) ==
    IF items = <<>> THEN [outcome |-> "ok", err |-> "", parts |-> parts]
    ELSE LET array == Split(Head(items), "=")
         IN  IF Len(array) < 2
             THEN [outcome |-> "panic", err |-> "index out of range", parts |-> parts]
             ELSE IF IsFileValue(array[2])
             THEN LET path == Tail(array[2])
                  IN  CASE ~Exists(path) ->
                             [outcome |-> "error", err |-> "does not exist", parts |-> parts]
                        [] FileStatus(path) = "locked" ->
                             [outcome |-> "error", err |-> "open", parts |-> parts]
                        [] FileStatus(path) = "dir" ->
                             [outcome |-> "error", err |-> "copy", parts |-> parts]
                        [] OTHER ->
                             WriteParts(Tail(items),
                                 Append(parts, FilePart(array[1], Basename(path),
                                                        FileContent(path))))
             ELSE WriteParts(Tail(items), Append(parts, FieldPart(array[1], array[2])))

\* a body that starts with a bracket is taken for JSON without validating it
SniffContentTypeByFirstByte(header, param, h) ==
    IF "Content-Type" \in DOMAIN header
    THEN HeaderSet(h, "Content-Type", header["Content-Type"])
    ELSE IF Len(param) > 0
    THEN IF Head(param) \in {"[", "{"}
         THEN HeaderSet(h, "Content-Type", Plain("application/json"))
         ELSE IF IsFormShaped(param)
         THEN HeaderSet(h, "Content-Type", Plain("application/x-www-form-urlencoded"))
         ELSE h
    ELSE h

\* lines 248-259: the Content-Type of a raw payload
SniffContentType(header, param, h) ==
    IF "Content-Type" \in DOMAIN header
    THEN HeaderSet(h, "Content-Type", header["Content-Type"])
    ELSE IF Len(param) > 0
    THEN IF Head(param) \in {"[", "{"} /\ JsonValid(param)
         THEN HeaderSet(h, "Content-Type", Plain("application/json"))
         ELSE IF IsFormShaped(param)
         THEN HeaderSet(h, "Content-Type", Plain("application/x-www-form-urlencoded"))
         ELSE h
    ELSE h

\* lines 271-275: every client header is set on the request
RECURSIVE CustomHeader(_, _, _)
CustomHeader(header, keys, h) ==
    IF keys = {} THEN h
    ELSE LET k == CHOOSE x \in keys : TRUE
         IN  CustomHeader(header, keys \ {k}, HeaderSet(h, k, header[k]))

\* lines 264-302
FinishRequest(c, req) ==
    LET h1 == IF Cardinality(DOMAIN c.header) > 0
              THEN CustomHeader(c.header, DOMAIN c.header, req.header)
              ELSE req.header
        host == IF HeaderGet(h1, "Host") # "" /\ req.host = ""
                THEN HeaderGet(h1, "Host") ELSE req.host
        h2 == IF Cardinality(DOMAIN c.cookies) > 0
              THEN HeaderSet(h1, "Cookie", HeaderCookie(c.cookies)) ELSE h1
        h3 == IF c.authUser # ""
              THEN HeaderSet(h2, "Authorization", BasicAuth(c.authUser, c.authPass))
              ELSE h2
        h4 == IF c.agent # "" THEN HeaderSet(h3, "User-Agent", Plain(c.agent)) ELSE h3
    IN  [req EXCEPT !.ctx = IF c.ctx # "nil" THEN c.ctx ELSE "background",
                    !.header = h4,
                    !.host = host]

\* lines 150-303.  boundary is the random boundary multipart.NewWriter draws.
PrepareRequest(c, method0, url0, data, boundary) ==
    LET method == ToUpper(method0)
        url == PrefixUrl(c.prefix, url0)
        enc == EncodeParam(HeaderGet(c.header, "Content-Type"), data)
        param == enc.param
    IN  IF ~enc.ok THEN Failed("marshal")
        ELSE IF method = "GET"
        THEN IF ~ValidMethod(method) THEN Failed("new request")
             ELSE Built(FinishRequest(c, NewRequest(method, GetUrl(url, param),
                                                    RawBody(<<>>))))
        ELSE IF Contains(param, MARK)
        THEN LET w == WriteParts(Split(param, "&"), <<>>)
             IN  CASE w.outcome = "panic" -> Panicked(w.err)
                   [] w.outcome = "error" -> Failed(w.err)
                   [] OTHER ->
                        IF ~ValidMethod(method) THEN Failed("new request")
                        ELSE LET req == NewRequest(method, url,
                                                   MultipartBody(boundary, w.parts))
                             IN  Built(FinishRequest(c,
                                     [req EXCEPT !.header =
                                         HeaderSet(req.header, "Content-Type",
                                                   FormDataContentType(boundary))]))
        ELSE IF ~ValidMethod(method) THEN Failed("new request")
             ELSE LET req == NewRequest(method, url, RawBody(param))
                  IN  Built(FinishRequest(c,
                          [req EXCEPT !.header =
                              SniffContentType(c.header, param, req.header)]))

\* ------------------------------------------------------------ cookie sync
CookieNames == {"session", "other"}

\* time.Time values: 0 is the zero time (IsZero), 1..MaxTime are instants the
\* clock reaches, FarFuture is an instant past the last nanosecond an int64
\* holds (the year 2262).  UnixNano is an int64 and wraps; the clock is scaled
\* so that the int64 range is -Half .. Half-1.
Half == 2 * (MaxTime + 2)
FarFuture == Half + 1
UnixNano(t) == ((t + Half) % (2 * Half)) - Half

Expiries == 0..MaxTime \cup {FarFuture}

Cookie(name, value, expires) == [name |-> name, value |-> value, expires |-> expires]

\* lines 139-143: one iteration of the loop over resp.Response.Cookies()
SaveCookie(store, v, t) ==
    IF v.expires # 0 /\ UnixNano(v.expires) < UnixNano(t)
    THEN [k \in DOMAIN store \ {v.name} |-> store[k]]
    ELSE [k \in DOMAIN store \cup {v.name} |-> IF k = v.name THEN v.value ELSE store[k]]

\* ------------------------------------------------------------------ state
VARIABLES
    \* Client
    retryCount, retryInterval, browserMode, cookies, header, prefix,
    authUser, authPass, agent, ctx, middlewareHandler,
    \* the DoRequest call in progress
    pc,        \* "idle", "chain", "call", "failed", "sync", "cookies",
               \* "returned", "panicked", "prepared"
    call,      \* its arguments
    prep,      \* what prepareRequest returned
    mw,        \* the clientMiddleware carried in the request context
    resp,      \* the *ClientResponse
    err,       \* the error
    now,       \* the last value of time.Now()
    \* observers
    pre,       \* the Client when the call started
    sent,      \* the outcome of every c.Do of the call, in order
    invoked,   \* the handler indices the chain invoked, in order
    execCalls, \* invocations of callRequest in the call
    jar,       \* per cookie name, the last cookie of the response read
    jarCount,  \* cookies of the response read so far
    latest,    \* per cookie name, the last cookie any response carried
    calls,     \* calls started
    \* calls running concurrently on the client, one per goroutine
    tpc,       \* where each call is
    treg,      \* the value of c.retryCount a call loaded at line 325
    tresp,     \* resp.Response of each call: "nil", "open" or "closed"
    tcur,      \* the cookie a call is writing to c.cookies
    tcount,    \* cookies of its response a call has saved
    theader,   \* the cookies a call read for its Cookie header
    fatal      \* the runtime has stopped the process

clientVars == <<retryCount, retryInterval, browserMode, cookies, header, prefix,
                authUser, authPass, agent, ctx, middlewareHandler>>
callVars == <<pc, call, prep, mw, resp, err, now>>
obsVars == <<pre, sent, invoked, execCalls, jar, jarCount, latest, calls>>
threadVars == <<tpc, treg, tresp, tcur, tcount, theader, fatal>>
vars == <<clientVars, callVars, obsVars, threadVars>>

Client ==
    [retryCount |-> retryCount, retryInterval |-> retryInterval,
     browserMode |-> browserMode, cookies |-> cookies, header |-> header,
     prefix |-> prefix, authUser |-> authUser, authPass |-> authPass,
     agent |-> agent, ctx |-> ctx, middlewareHandler |-> middlewareHandler]

NoCookies == [k \in {} |-> ""]
NoCall == [method |-> "", url |-> <<>>, data |-> <<>>]
NoPrep == [outcome |-> "", err |-> "", req |-> NoRequest]
NoMiddleware == [handlers |-> <<>>, handlerIndex |-> -1]
NilResponse == [isNil |-> TRUE, response |-> "nil"]
\* the goroutines calling DoRequest on one client at the same time
Threads == {1, 2}
NoCookie == Cookie("", "", 0)
NoJar == [n \in CookieNames |-> [set |-> FALSE, value |-> "", expires |-> 0]]

Errors == {"e1", "e2"}

\* the arguments of SpecPrepare
Methods == {"GET", "get", "POST", "bad method"}
Urls == SeqsUpTo({"h", "?", " "}, MaxUrlLen)
ParamAlphabet == {"a", "p", "=", "&", MARK}
\* bodies for the sniffing of lines 251-258: JSON documents, texts that only
\* start like one, form pairs, and pairs whose value starts with a line feed
SniffBodies ==
    {<<"{", "}">>, <<"[", "1", "]">>, <<"{", Q, "a", Q, ":", "1", "}">>,
     <<"{", "a">>, <<"[", "1", "]", "=", "a">>, <<"[", "=", "1">>,
     <<" ", "{", "}">>, <<"1">>, <<"a", " ", "b">>,
     <<"a", "=", NL>>, <<"a", "=", NL, "a">>, <<"a", "=", "a", NL>>}

Payloads ==
    {<<>>, <<FuncData>>}
    \cup {<<StrData(s)>> : s \in SniffBodies}
    \cup {<<StrData(s)>> : s \in SeqsUpTo(ParamAlphabet, MaxParamLen)}
    \cup {<<BytesData(s)>> : s \in {<<"a">>, <<"a", "=", "p">>, <<"=", MARK, "p">>}}
    \cup {<<MapData(<<"f">>, v)>> : v \in {<<"a">>, <<MARK, "p">>, <<MARK, "a">>}}
Boundaries == {"b1", "b2"}

\* ---------------------------------------------------------------- actions
\* the cursor starts on the first handler instead of before it
NewClientMiddlewareFromZero(handlers) ==
    [handlers |-> handlers \o <<"callRequest">>, handlerIndex |-> 0]

\* the network-call handler is not appended
NewClientMiddlewareNoExecutor(handlers) ==
    [handlers |-> handlers, handlerIndex |-> -1]

\* lines 119-128: the handlers carried with the request and the cursor
NewClientMiddleware(handlers) ==
    [handlers |-> handlers \o <<"callRequest">>, handlerIndex |-> -1]

\* lines 308-310: the response object callRequest starts with
NewClientResponse == [isNil |-> FALSE, response |-> "nil"]

\* the budget test lets one more retry through
ShouldRetryInclusive(count) == count >= 0

\* the last retry of the budget is never taken
ShouldRetryOffByOne(count) == count > 1

\* line 324
ShouldRetry(count) == count > 0

\* lines 98-133: DoRequest up to the dispatch.  A construction error returns
\* at line 101; a panic of prepareRequest ends the call.
DoRequest(Requests) ==
    /\ pc = "idle"
    /\ calls < MaxCalls
    /\ \E r \in Requests, b \in Boundaries :
         LET p == PrepareRequest(Client, r.method, r.url, r.data, b)
             chained == p.outcome = "ok" /\ Len(middlewareHandler) > 0
             direct == p.outcome = "ok" /\ Len(middlewareHandler) = 0
         IN  /\ call' = r
             /\ prep' = p
             /\ pc' = CASE p.outcome = "panic" -> "panicked"
                        [] p.outcome = "error" -> "returned"
                        [] chained -> "chain"
                        [] OTHER -> "call"
             /\ mw' = IF chained THEN NewClientMiddleware(middlewareHandler)
                      ELSE NoMiddleware
             /\ resp' = IF direct THEN NewClientResponse ELSE NilResponse
             /\ err' = IF p.outcome = "error" THEN p.err ELSE ""
             /\ execCalls' = IF direct THEN 1 ELSE 0
    /\ pre' = Client
    /\ sent' = <<>>
    /\ invoked' = <<>>
    /\ jar' = NoJar
    /\ jarCount' = 0
    /\ calls' = calls + 1
    /\ UNCHANGED <<clientVars, now, latest>>
    /\ UNCHANGED threadVars

\* Client.MiddlewareNext: advances the cursor and invokes the handler under
\* it.  An interceptor "pass" calls MiddlewareNext once and returns what it
\* got; an interceptor "stop" returns an error of its own without calling it;
\* the last handler is callRequest.
MiddlewareNext ==
    /\ pc = "chain"
    /\ LET i == mw.handlerIndex + 1
       IN  IF i >= Len(mw.handlers)
           THEN /\ pc' = "panicked"
                /\ UNCHANGED <<mw, resp, err, invoked, execCalls>>
           ELSE LET h == mw.handlers[i + 1]
                IN  /\ mw' = [mw EXCEPT !.handlerIndex = i]
                    /\ invoked' = Append(invoked, i)
                    /\ pc' = CASE h = "callRequest" -> "call"
                               [] h = "pass" -> "chain"
                               [] OTHER -> "sync"
                    /\ resp' = IF h = "callRequest" THEN NewClientResponse ELSE resp
                    /\ err' = IF h = "stop" THEN "stopped" ELSE err
                    /\ execCalls' = IF h = "callRequest" THEN execCalls + 1
                                    ELSE execCalls
    /\ UNCHANGED <<clientVars, call, prep, now, pre, sent, jar, jarCount, latest, calls>>
    /\ UNCHANGED threadVars

\* a response that came with an error is left open
ResponseLeftOpen(o) ==
    CASE o = "ok" -> "open"
      [] o = "failresp" -> "open"
      [] OTHER -> "nil"

\* lines 317-323: resp.Response after c.Do answered with a response ("ok"),
\* an error and no response ("fail"), or an error and a response
\* ("failresp"), whose body line 320 closes
ResponseAfterSend(o) ==
    CASE o = "ok" -> "open"
      [] o = "failresp" -> "closed"
      [] OTHER -> "nil"

\* lines 317-323 and 331-333: one send of callRequest's loop
Do ==
    /\ pc = "call"
    /\ \E o \in {"ok", "fail", "failresp"}, e \in Errors :
         /\ sent' = Append(sent, [err |-> IF o = "ok" THEN "" ELSE e,
                                  response |-> o # "fail",
                                  body |-> ResponseAfterSend(o)])
         /\ resp' = [resp EXCEPT !.response = ResponseAfterSend(o)]
         /\ err' = IF o = "ok" THEN "" ELSE e
         /\ pc' = IF o = "ok" THEN "sync" ELSE "failed"
    /\ UNCHANGED <<clientVars, call, prep, mw, now, pre, invoked, execCalls, jar,
                   jarCount, latest, calls>>
    /\ UNCHANGED threadVars

\* the budget is left as it is
DecrementSkipped(count) == count

\* line 325: c.retryCount--
Decrement(count) == count - 1

\* lines 324-330: after a failed send, the budget test, the decrement and the
\* wait, or the end of the loop
Retry ==
    /\ pc = "failed"
    /\ IF ShouldRetry(retryCount)
       THEN /\ retryCount' = Decrement(retryCount)
            /\ pc' = "call"
       ELSE /\ retryCount' = retryCount
            /\ pc' = "sync"
    /\ UNCHANGED <<retryInterval, browserMode, cookies, header, prefix, authUser,
                   authPass, agent, ctx, middlewareHandler>>
    /\ UNCHANGED <<call, prep, mw, resp, err, now, obsVars>>
    /\ UNCHANGED threadVars

\* cookies are saved whatever the mode
ShouldSyncAnyMode(browser, r) == ~r.isNil

\* line 136
ShouldSync(browser, r) == browser /\ ~r.isNil

\* lines 136-138: resp.Response.Cookies() dereferences resp.Response, which
\* is nil when no send produced a response
Sync ==
    /\ pc = "sync"
    /\ IF ShouldSync(browserMode, resp)
       THEN IF resp.response = "nil"
            THEN pc' = "panicked" /\ now' = now
            ELSE pc' = "cookies" /\ now' \in now..MaxTime
       ELSE pc' = "returned" /\ now' = now
    /\ UNCHANGED <<clientVars, call, prep, mw, resp, err, obsVars>>
    /\ UNCHANGED threadVars

\* lines 138-144: one cookie of the response
SaveCookieStep(Cookies) ==
    /\ pc = "cookies"
    /\ jarCount < MaxCookies
    /\ \E v \in Cookies :
         /\ cookies' = SaveCookie(cookies, v, now)
         /\ jar' = [jar EXCEPT ![v.name] =
                       [set |-> TRUE, value |-> v.value, expires |-> v.expires]]
         /\ latest' = [latest EXCEPT ![v.name] =
                          [set |-> TRUE, value |-> v.value,
                           expired |-> v.expires # 0 /\ v.expires < now]]
    /\ jarCount' = jarCount + 1
    /\ UNCHANGED <<retryCount, retryInterval, browserMode, header, prefix, authUser,
                   authPass, agent, ctx, middlewareHandler>>
    /\ UNCHANGED <<callVars, pre, sent, invoked, execCalls, calls>>
    /\ UNCHANGED threadVars

\* line 146, after the last cookie
Return ==
    /\ pc = "cookies"
    /\ pc' = "returned"
    /\ UNCHANGED <<clientVars, call, prep, mw, resp, err, now, obsVars>>
    /\ UNCHANGED threadVars

\* The caller takes what DoRequest returned (or recovers from its panic):
\* the call's locals are gone, the Client stays.
Leave ==
    /\ pc \in {"returned", "panicked"}
    /\ pc' = "idle"
    /\ call' = NoCall
    /\ prep' = NoPrep
    /\ mw' = NoMiddleware
    /\ resp' = NilResponse
    /\ err' = ""
    /\ pre' = Client
    /\ sent' = <<>>
    /\ invoked' = <<>>
    /\ execCalls' = 0
    /\ jar' = NoJar
    /\ jarCount' = 0
    /\ UNCHANGED <<clientVars, now, latest, calls>>
    /\ UNCHANGED threadVars

\* --------------------------------------------------------- specifications
InitCall ==
    /\ pc = "idle"
    /\ call = NoCall
    /\ prep = NoPrep
    /\ mw = NoMiddleware
    /\ resp = NilResponse
    /\ err = ""
    /\ now = 1
    /\ pre = Client
    /\ sent = <<>>
    /\ invoked = <<>>
    /\ execCalls = 0
    /\ jar = NoJar
    /\ jarCount = 0
    /\ latest = [n \in CookieNames |-> [set |-> FALSE, value |-> "", expired |-> FALSE]]
    /\ calls = 0
    /\ tpc = [t \in Threads |-> "start"]
    /\ treg = [t \in Threads |-> 0]
    /\ tresp = [t \in Threads |-> "nil"]
    /\ tcur = [t \in Threads |-> NoCookie]
    /\ tcount = [t \in Threads |-> 0]
    /\ theader = [t \in Threads |-> NoCookies]
    /\ fatal = FALSE

\* The requests of Spec: a GET with a form body, an upload of an existing
\* file, an upload naming a missing file, and an upload naming a missing file
\* after an item that holds no "=".
Requests ==
    {[method |-> "GET", url |-> <<"?">>,
      data |-> <<StrData(<<"a", "=", "b">>)>>],
     [method |-> "POST", url |-> <<>>,
      data |-> <<StrData(<<"f", "=", MARK, "p">>)>>],
     [method |-> "POST", url |-> <<>>,
      data |-> <<StrData(<<"f", "=", MARK, "a">>)>>],
     [method |-> "POST", url |-> <<>>,
      data |-> <<StrData(<<"a", "&", "f", "=", MARK, "a">>)>>]}

SessionCookies == {Cookie("session", "v1", e) : e \in {0, 1}}

Init ==
    /\ retryCount \in (-1)..MaxRetry
    /\ retryInterval = 1
    /\ browserMode \in BOOLEAN
    /\ cookies = NoCookies
    /\ header = HeaderSet(EmptyHeader, "X-Trace", Plain("t"))
    /\ prefix = <<"h">>
    /\ authUser = "user"
    /\ authPass = "pass"
    /\ agent = "agent"
    /\ ctx = "nil"
    /\ middlewareHandler \in SeqsUpTo({"pass", "stop"}, MaxInterceptors)
    /\ InitCall

Next ==
    \/ DoRequest(Requests)
    \/ MiddlewareNext
    \/ Do
    \/ Retry
    \/ Sync
    \/ SaveCookieStep(SessionCookies)
    \/ Return
    \/ Leave

Spec == Init /\ [][Next]_vars

\* A client in or out of browser mode, with or without a stored cookie and
\* an interceptor, sending one GET to a server that answers with any cookies.
AllCookies ==
    {Cookie(n, v, e) : n \in CookieNames, v \in {"v1", "v2"}, e \in Expiries}

CookieRequests ==
    {[method |-> "GET", url |-> <<"h">>, data |-> <<>>]}

InitCookie ==
    /\ retryCount = 0
    /\ retryInterval = 1
    /\ browserMode \in BOOLEAN
    /\ cookies \in {NoCookies, [n \in {"other"} |-> "v1"]}
    /\ header = EmptyHeader
    /\ prefix = <<>>
    /\ authUser = ""
    /\ authPass = ""
    /\ agent = ""
    /\ ctx = "nil"
    /\ middlewareHandler \in {<<>>, <<"pass">>}
    /\ InitCall

NextCookie ==
    \/ DoRequest(CookieRequests)
    \/ MiddlewareNext
    \/ Do
    \/ Retry
    \/ Sync
    \/ SaveCookieStep(AllCookies)
    \/ Return
    \/ Leave

SpecCookie == InitCookie /\ [][NextCookie]_vars

\* Spec with its scheduling: a send returns (the claims are about transports
\* whose sends return), and the sleep of line 326 ends
SpecLive == Init /\ [][Next]_vars /\ WF_vars(Do) /\ WF_vars(Retry)

\* prepareRequest applied to one set of arguments
Prepare ==
    /\ pc = "idle"
    /\ \E m \in Methods, u \in Urls, d \in Payloads, b \in Boundaries :
         /\ call' = [method |-> m, url |-> u, data |-> d]
         /\ prep' = PrepareRequest(Client, m, u, d, b)
    /\ pc' = "prepared"
    /\ pre' = Client
    /\ UNCHANGED <<clientVars, mw, resp, err, now>>
    /\ UNCHANGED <<sent, invoked, execCalls, jar, jarCount, latest, calls>>
    /\ UNCHANGED threadVars

\* client headers naming what the later steps of lines 276-301 also set
ReservedHeaders ==
    [k \in {"Host", "Cookie", "Authorization", "User-Agent"} |->
        Plain(CASE k = "Host" -> "h2"
                [] k = "Cookie" -> "own=c"
                [] k = "Authorization" -> "Bearer t"
                [] OTHER -> "own-agent")]

\* a client with nothing configured but its headers, and one with a prefix,
\* a stored cookie, credentials and a user-agent
InitPrepare ==
    /\ retryCount = 0
    /\ retryInterval = 1
    /\ browserMode = FALSE
    /\ header \in {EmptyHeader,
                   HeaderSet(EmptyHeader, "Content-Type", Plain("application/json")),
                   HeaderSet(EmptyHeader, "Content-Type", Plain("application/xml")),
                   HeaderSet(EmptyHeader, "Content-Type", Plain("text/plain")),
                   ReservedHeaders}
    /\ \/ /\ prefix = <<>>
          /\ cookies = NoCookies
          /\ authUser = ""
          /\ authPass = ""
          /\ agent = ""
       \/ /\ prefix = <<"h">>
          /\ cookies = [n \in {"session"} |-> "v1"]
          /\ authUser = "user"
          /\ authPass = "pass"
          /\ agent = "agent"
    /\ ctx = "nil"
    /\ middlewareHandler = <<>>
    /\ InitCall

NextPrepare == Prepare

SpecPrepare == InitPrepare /\ [][NextPrepare]_vars

\* ------------------------------------------------------- concurrent calls
\* Two goroutines call DoRequest on the same Client.  Each call's request,
\* response and loop position are its own; c.retryCount and the map c.cookies
\* are the Client's.  No lock is taken anywhere in the file, so the steps of
\* the two calls interleave freely.  A map access takes time: it is begun and
\* ended in two steps.  Accesses to the map that overlap, one of them a
\* write, are a data race, which the Go runtime may answer with a fatal
\* error ("concurrent map writes", "concurrent map read and map write") that
\* stops the process, or not notice.

\* another call is in the middle of an access that conflicts with an access
\* of call t: any access conflicts with a write, a write with any access
Overlaps(t, writing) ==
    \E u \in Threads \ {t} :
        tpc[u] = "writing" \/ (writing /\ tpc[u] = "reading")

\* lines 282-289: the call starts to read c.cookies for its Cookie header
TBeginRead(t) ==
    /\ ~fatal
    /\ tpc[t] = "start"
    /\ tpc' = [tpc EXCEPT ![t] = "reading"]
    /\ fatal' \in (IF Overlaps(t, FALSE) THEN BOOLEAN ELSE {FALSE})
    /\ UNCHANGED <<clientVars, callVars, obsVars, treg, tresp, tcur, tcount, theader>>

\* lines 289-293: the read is over, the header is set
TEndRead(t) ==
    /\ ~fatal
    /\ tpc[t] = "reading"
    /\ tpc' = [tpc EXCEPT ![t] = "call"]
    /\ theader' = [theader EXCEPT ![t] = cookies]
    /\ UNCHANGED <<clientVars, callVars, obsVars, treg, tresp, tcur, tcount, fatal>>

\* lines 317-323 and 331-333: one send
TDo(t) ==
    /\ ~fatal
    /\ tpc[t] = "call"
    /\ \E o \in {"ok", "fail", "failresp"} :
         /\ tresp' = [tresp EXCEPT ![t] = ResponseAfterSend(o)]
         /\ tpc' = [tpc EXCEPT ![t] = IF o = "ok" THEN "sync" ELSE "failed"]
    /\ UNCHANGED <<clientVars, callVars, obsVars, treg, tcur, tcount, theader, fatal>>

\* line 324: the test of the budget
TTest(t) ==
    /\ ~fatal
    /\ tpc[t] = "failed"
    /\ tpc' = [tpc EXCEPT ![t] = IF ShouldRetry(retryCount) THEN "load" ELSE "sync"]
    /\ UNCHANGED <<clientVars, callVars, obsVars, treg, tresp, tcur, tcount, theader,
                   fatal>>

\* line 325: c.retryCount-- reads the field ...
TLoad(t) ==
    /\ ~fatal
    /\ tpc[t] = "load"
    /\ treg' = [treg EXCEPT ![t] = retryCount]
    /\ tpc' = [tpc EXCEPT ![t] = "store"]
    /\ UNCHANGED <<clientVars, callVars, obsVars, tresp, tcur, tcount, theader, fatal>>

\* ... and writes it back, one less; then the wait of line 326
TStore(t) ==
    /\ ~fatal
    /\ tpc[t] = "store"
    /\ retryCount' = Decrement(treg[t])
    /\ treg' = [treg EXCEPT ![t] = 0]
    /\ tpc' = [tpc EXCEPT ![t] = "call"]
    /\ UNCHANGED <<retryInterval, browserMode, cookies, header, prefix, authUser,
                   authPass, agent, ctx, middlewareHandler>>
    /\ UNCHANGED <<callVars, obsVars, tresp, tcur, tcount, theader, fatal>>

\* lines 136-138
TSync(t) ==
    /\ ~fatal
    /\ tpc[t] = "sync"
    /\ tpc' = [tpc EXCEPT ![t] =
                  IF ShouldSync(browserMode, [isNil |-> FALSE, response |-> tresp[t]])
                  THEN IF tresp[t] = "nil" THEN "panicked" ELSE "cookies"
                  ELSE "done"]
    /\ UNCHANGED <<clientVars, callVars, obsVars, treg, tresp, tcur, tcount, theader,
                   fatal>>

\* lines 139-143: the call starts to write one cookie of its response
TBeginWrite(t, Cookies) ==
    /\ ~fatal
    /\ tpc[t] = "cookies"
    /\ tcount[t] < MaxCookies
    /\ \E v \in Cookies : tcur' = [tcur EXCEPT ![t] = v]
    /\ tpc' = [tpc EXCEPT ![t] = "writing"]
    /\ fatal' \in (IF Overlaps(t, TRUE) THEN BOOLEAN ELSE {FALSE})
    /\ UNCHANGED <<clientVars, callVars, obsVars, treg, tresp, tcount, theader>>

\* lines 140, 142: the write is over
TEndWrite(t) ==
    /\ ~fatal
    /\ tpc[t] = "writing"
    /\ cookies' = SaveCookie(cookies, tcur[t], now)
    /\ tcur' = [tcur EXCEPT ![t] = NoCookie]
    /\ tcount' = [tcount EXCEPT ![t] = tcount[t] + 1]
    /\ tpc' = [tpc EXCEPT ![t] = "cookies"]
    /\ UNCHANGED <<retryCount, retryInterval, browserMode, header, prefix, authUser,
                   authPass, agent, ctx, middlewareHandler>>
    /\ UNCHANGED <<callVars, obsVars, treg, tresp, theader, fatal>>

\* line 146, after the last cookie
TReturn(t) ==
    /\ ~fatal
    /\ tpc[t] = "cookies"
    /\ tpc' = [tpc EXCEPT ![t] = "done"]
    /\ UNCHANGED <<clientVars, callVars, obsVars, treg, tresp, tcur, tcount, theader,
                   fatal>>

ThreadCookies == {Cookie("session", v, 0) : v \in {"v1", "v2"}}

InitConcurrent ==
    /\ retryCount \in 0..MaxRetry
    /\ retryInterval = 1
    /\ browserMode \in BOOLEAN
    /\ cookies \in {NoCookies, [n \in {"other"} |-> "v1"]}
    /\ header = EmptyHeader
    /\ prefix = <<>>
    /\ authUser = ""
    /\ authPass = ""
    /\ agent = ""
    /\ ctx = "nil"
    /\ middlewareHandler = <<>>
    /\ InitCall

NextConcurrent ==
    \E t \in Threads :
        \/ TBeginRead(t)
        \/ TEndRead(t)
        \/ TDo(t)
        \/ TTest(t)
        \/ TLoad(t)
        \/ TStore(t)
        \/ TSync(t)
        \/ TBeginWrite(t, ThreadCookies)
        \/ TEndWrite(t)
        \/ TReturn(t)

SpecConcurrent == InitConcurrent /\ [][NextConcurrent]_vars

\* ----------------------------------------------------------------- claims
\* callRequest has returned to DoRequest
Executed == execCalls > 0 /\ pc \in {"sync", "cookies", "returned", "panicked"}

AllSendsFailed == \A i \in 1..Len(sent) : sent[i].err # ""

NoSendResponded == \A i \in 1..Len(sent) : ~sent[i].response

\* C1: when every send of a request fails and the client's retry count was
\* N >= 0 when the request started, callRequest makes exactly N+1 sends and
\* the error it hands back, which DoRequest returns, is the error of the last
\* send.
C1_AttemptsAndLastError ==
    (Executed /\ execCalls = 1 /\ AllSendsFailed /\ pre.retryCount >= 0)
        => /\ Len(sent) = pre.retryCount + 1
           /\ err = sent[Len(sent)].err

C1_Witness ==
    /\ pc = "returned"
    /\ pre.retryCount = 2
    /\ Len(sent) = 3
    /\ AllSendsFailed
    /\ sent[1].err # sent[3].err
    /\ err = sent[3].err

\* C2: after a DoRequest call the client's retry count, retry interval,
\* default headers, prefix, credentials, user-agent and interceptor list are
\* what they were before the call.
C2_ConfigurationUnchanged ==
    pc = "returned"
        => /\ retryCount = pre.retryCount
           /\ retryInterval = pre.retryInterval
           /\ header = pre.header
           /\ prefix = pre.prefix
           /\ authUser = pre.authUser
           /\ authPass = pre.authPass
           /\ agent = pre.agent
           /\ middlewareHandler = pre.middlewareHandler

\* C3: when every send fails and no send produces a response object,
\* DoRequest returns the last transport error (it does not panic) and leaves
\* the cookie store as it was, in browser mode too.
C3_FailedCallReturnsError ==
    (execCalls > 0 /\ pc \in {"returned", "panicked"}
        /\ AllSendsFailed /\ NoSendResponded)
        => /\ pc = "returned"
           /\ err = sent[Len(sent)].err
           /\ cookies = pre.cookies

\* the body string prepareRequest encodes for the call in progress
EncodedBody == EncodeParam(HeaderGet(pre.header, "Content-Type"), call.data).param

\* some name=value item of the body has a value "@file:" + a path that does
\* not exist
HasMissingFileField(param) ==
    \E i \in 1..Len(Split(param, "&")) :
        LET pair == Split(Split(param, "&")[i], "=")
        IN  /\ Len(pair) = 2
            /\ Len(pair[2]) > 1
            /\ Head(pair[2]) = MARK
            /\ ~Exists(Tail(pair[2]))

\* C4: a non-GET request whose body names a missing file returns a
\* construction error: nothing is sent, no interceptor runs, and the cookie
\* store and the retry count are unchanged.
C4_MissingFileIsConstructionError ==
    (pc # "idle" /\ ToUpper(call.method) # "GET" /\ HasMissingFileField(EncodedBody))
        => /\ pc = "returned"
           /\ prep.outcome = "error"
           /\ err # ""
           /\ resp.isNil
           /\ sent = <<>>
           /\ invoked = <<>>
           /\ cookies = pre.cookies
           /\ retryCount = pre.retryCount

\* C5: after calls made one after another in browser mode, the store holds,
\* for every cookie name, the value of the most recent cookie of that name a
\* response carried, that cookie being non-expired (so two calls that set
\* session to different values leave session with the second value).
C5_StoreHoldsLatestValue ==
    pc \in {"returned", "idle"}
        => \A n \in CookieNames :
             (latest[n].set /\ ~latest[n].expired)
                 => n \in DOMAIN cookies /\ cookies[n] = latest[n].value

\* C6: after a browser-mode call, a name whose cookie in the response (the
\* last one of that name) has an expiry that is set and strictly before the
\* evaluation time has no entry; a name whose cookie has any other expiry
\* (unset, equal or later) holds the cookie's value; a name the response does
\* not carry is as it was before the call.
C6_CookieSync ==
    pc = "returned"
        => \A n \in CookieNames :
             IF jar[n].set
             THEN IF jar[n].expires # 0 /\ jar[n].expires < now
                  THEN n \notin DOMAIN cookies
                  ELSE n \in DOMAIN cookies /\ cookies[n] = jar[n].value
             ELSE /\ n \in DOMAIN cookies <=> n \in DOMAIN pre.cookies
                  /\ n \in DOMAIN cookies => cookies[n] = pre.cookies[n]

AllPass == \A i \in 1..Len(middlewareHandler) : middlewareHandler[i] = "pass"

\* C7: when every configured interceptor calls MiddlewareNext exactly once,
\* the handlers are invoked in the order 0, 1, ..., each once, callRequest is
\* invoked once and last; with no interceptor callRequest is invoked once and
\* the chain not at all.
C7_ChainOrder ==
    AllPass
        => /\ \A i \in 1..Len(invoked) : invoked[i] = i - 1
           /\ execCalls <= 1
           /\ (prep.outcome = "ok" /\ pc \notin {"idle", "chain"})
                => /\ execCalls = 1
                   /\ Len(invoked) = IF Len(middlewareHandler) >= 1
                                     THEN Len(middlewareHandler) + 1 ELSE 0

C7_Witness ==
    /\ pc = "returned"
    /\ middlewareHandler = <<"pass", "pass">>
    /\ invoked = <<0, 1, 2>>
    /\ execCalls = 1

IsText(d) == Len(d) > 0 /\ d[1].kind \in {"string", "bytes"}

ConfiguredType == HeaderGet(pre.header, "Content-Type")

\* C8: with Content-Type configured as application/json or application/xml,
\* a string or []byte argument is the body of the request byte for byte, and
\* any other argument is marshaled.
C8_PassthroughBody ==
    (pc = "prepared"
        /\ ConfiguredType \in {"application/json", "application/xml"}
        /\ ToUpper(call.method) = "POST"
        /\ Len(call.data) > 0 /\ call.data[1].kind # "func")
        => /\ prep.outcome = "ok"
           /\ prep.req.body =
                RawBody(IF IsText(call.data) THEN call.data[1].s
                        ELSE IF ConfiguredType = "application/json"
                        THEN JsonMarshal(call.data[1]).out
                        ELSE VarToXml(call.data[1]).out)

\* C9: a built file-upload request carries the Content-Type
\* multipart/form-data with the boundary of its body, whatever the client's
\* configuration.
C9_UploadContentType ==
    (prep.outcome = "ok" /\ prep.req.body.kind = "multipart"
        /\ \E i \in 1..Len(prep.req.body.parts) : prep.req.body.parts[i].kind = "file")
        => /\ "Content-Type" \in DOMAIN prep.req.header
           /\ prep.req.header["Content-Type"] =
                FormDataContentType(prep.req.body.boundary)

\* C10: a GET request has an empty body, and its URL is the prefixed URL,
\* followed, when the encoded body is not empty, by "&" if the prefixed URL
\* holds a "?" and by "?" otherwise, and then by the encoded body.
C10_GetQueryMerge ==
    (pc = "prepared" /\ ToUpper(call.method) = "GET" /\ prep.outcome = "ok")
        => LET u == PrefixUrl(pre.prefix, call.url)
               q == EncodedBody
               url == prep.req.url
           IN  /\ prep.req.method = "GET"
               /\ prep.req.body = RawBody(<<>>)
               /\ IF q = <<>> THEN url = u
                  ELSE /\ Len(url) = Len(u) + 1 + Len(q)
                       /\ SubSeq(url, 1, Len(u)) = u
                       /\ url[Len(u) + 1] =
                            IF \E i \in 1..Len(u) : u[i] = "?" THEN "&" ELSE "?"
                       /\ SubSeq(url, Len(u) + 2, Len(url)) = q

C10_Witness ==
    /\ pc = "prepared"
    /\ call.method = "get"
    /\ prep.outcome = "ok"
    /\ pre.prefix = <<"h">>
    /\ call.url = <<" ", "?">>
    /\ call.data = <<StrData(<<"a", "=", "p">>)>>
    /\ prep.req.url = <<"h", "?", "&", "a", "=", "p">>

\* the body is one or more word or bracket characters, "=", and a value of at
\* least one character
TokenEqualsValue(s) ==
    \E k \in 1..Len(s) :
        /\ k >= 1
        /\ \A j \in 1..k : s[j] \in {"a", "b", "f", "p", "1", "[", "]"}
        /\ k + 1 <= Len(s) /\ s[k + 1] = "="
        /\ Len(s) > k + 1

\* the same, the value starting with a character other than a line feed
TokenEqualsLineValue(s) ==
    \E k \in 1..Len(s) :
        /\ \A j \in 1..k : s[j] \in {"a", "b", "f", "p", "1", "[", "]"}
        /\ k + 1 <= Len(s) /\ s[k + 1] = "="
        /\ Len(s) > k + 1 /\ s[k + 2] # NL

\* a non-GET request was built with a raw byte payload
RawPath ==
    /\ pc = "prepared"
    /\ prep.outcome = "ok"
    /\ ToUpper(call.method) # "GET"
    /\ prep.req.body.kind = "raw"

LooksJson(b) == b # <<>> /\ Head(b) \in {"[", "{"} /\ JsonValid(b)

\* the Content-Type of the built request is t ("" for none)
TypeIs(t) ==
    IF t = "" THEN "Content-Type" \notin DOMAIN prep.req.header
    ELSE /\ "Content-Type" \in DOMAIN prep.req.header
         /\ prep.req.header["Content-Type"] = Plain(t)

C12_StopsAtFirstSuccess ==
    (execCalls = 1 /\ pre.retryCount >= 0 /\ sent # <<>>) =>
        /\ \A i \in 1..(Len(sent) - 1) : sent[i].err # ""
        /\ (AllSendsFailed /\ Len(sent) <= pre.retryCount) => pc \in {"call", "failed"}
        /\ sent[Len(sent)].err = "" =>
              /\ pc # "call"
              /\ err = ""
              /\ resp = [isNil |-> FALSE, response |-> "open"]

C12_Witness ==
    /\ pc = "returned"
    /\ pre.retryCount = 2
    /\ Len(sent) = 3
    /\ sent[1].err # "" /\ sent[2].err # "" /\ sent[3].err = ""
    /\ err = ""
    /\ resp.response = "open"

\* C13: a response that came with an error is closed as soon as the send has
\* failed (before the budget test, the wait and the next send, and before
\* callRequest returns); at most one response of the call is open at any
\* point; the response of a successful send is open when the call returns.
C13_FailedResponsesClosed ==
    /\ \A i \in 1..Len(sent) :
         (sent[i].err # "" /\ sent[i].response) => sent[i].body = "closed"
    /\ Cardinality({i \in 1..Len(sent) : sent[i].body = "open"}) <= 1
    /\ (pc = "failed" /\ sent[Len(sent)].response) => resp.response = "closed"
    /\ (pc = "returned" /\ sent # <<>> /\ sent[Len(sent)].err = "")
          => resp.response = "open" /\ sent[Len(sent)].body = "open"

C13_Witness ==
    /\ pc = "returned"
    /\ Len(sent) = 3
    /\ sent[1].response /\ sent[1].body = "closed"
    /\ sent[2].response /\ sent[2].body = "closed"
    /\ sent[3].err = "" /\ sent[3].body = "open"
    /\ resp.response = "open"

\* some "&"-delimited name=value pair of the body has a value that begins
\* with "@file:"
HasFileValue(param) ==
    \E i \in 1..Len(Split(param, "&")) :
        LET pair == Split(Split(param, "&")[i], "=")
        IN  /\ Len(pair) >= 2
            /\ pair[2] # <<>>
            /\ Head(pair[2]) = MARK

\* C14: a built request has a multipart body if and only if its method is not
\* GET and some name=value pair of the encoded body has a value beginning
\* with "@file:"; a body holding "@file:" only elsewhere is a raw payload,
\* and a GET request is never multipart.
C14_MultipartSelection ==
    (pc = "prepared" /\ prep.outcome = "ok") =>
        (prep.req.body.kind = "multipart"
            <=> (ToUpper(call.method) # "GET" /\ HasFileValue(EncodedBody)))

\* C15: every header configured on the client is on the built request with
\* its configured value.
C15_ClientHeadersKept ==
    (pc = "prepared" /\ prep.outcome = "ok") =>
        \A k \in DOMAIN pre.header :
            /\ k \in DOMAIN prep.req.header
            /\ prep.req.header[k] = pre.header[k]

\* C16: with browser mode disabled no step of any call changes the cookie
\* store, whatever the responses carry.
C16_StoreUntouchedOutsideBrowserMode ==
    [][~browserMode => cookies' = cookies]_vars

C16_Witness ==
    /\ ~browserMode
    /\ calls = 2
    /\ pc = "returned"
    /\ resp.response = "open"
    /\ cookies = [n \in {"other"} |-> "v1"]

\* a dispatch through the chain is in progress or has ended
Dispatched == prep.outcome = "ok" /\ Len(middlewareHandler) > 0 /\ pc # "idle"

\* C17: in a dispatch with interceptors configured the handler list carried
\* with the request is the client's interceptors in configured order followed
\* by the network-call handler; neither that list nor the client's own list
\* changes during the dispatch; the cursor starts at -1 and never decreases.
C17_HandlerListAndCursor ==
    /\ [](Dispatched =>
            /\ mw.handlers = pre.middlewareHandler \o <<"callRequest">>
            /\ middlewareHandler = pre.middlewareHandler
            /\ mw.handlerIndex >= -1)
    /\ [][/\ (pc = "idle" /\ pc' # "idle" /\ prep'.outcome = "ok"
                /\ Len(middlewareHandler) > 0)
               => mw'.handlerIndex = -1 /\ pc' = "chain"
          /\ (pc # "idle" /\ pc' # "idle")
               => /\ mw'.handlers = mw.handlers
                  /\ mw'.handlerIndex >= mw.handlerIndex
                  /\ middlewareHandler' = middlewareHandler]_vars

C17_Witness ==
    /\ pc = "sync"
    /\ middlewareHandler = <<"pass", "pass">>
    /\ mw = [handlers |-> <<"pass", "pass", "callRequest">>, handlerIndex |-> 2]

\* C19: starting from a retry count N >= 0, the client's retry count is never
\* negative, calls with failing sends running concurrently included.
C19_BudgetNeverNegative == retryCount >= 0

\* C18: the cookie store is accessed without mutual exclusion.  While one
\* call is in the middle of a write of the store, the other call's read of
\* the store for its Cookie header and the other call's write of it are not
\* held back; the store is written in browser mode only.  The witness is the
\* state the claim names: one call writing while the other reads.
C18_NoMutualExclusion ==
    \A t \in Threads : \A u \in Threads \ {t} :
        (tpc[u] = "writing" /\ ~fatal) =>
            /\ browserMode
            /\ tpc[t] = "start" => ENABLED TBeginRead(t)
            /\ (tpc[t] = "cookies" /\ tcount[t] < MaxCookies)
                  => ENABLED TBeginWrite(t, ThreadCookies)

C18_Witness ==
    /\ browserMode
    /\ \E t \in Threads : \E u \in Threads \ {t} :
         /\ tpc[t] = "writing"
         /\ tpc[u] = "reading"

Max0(n) == IF n > 0 THEN n ELSE 0

\* C20: whatever the retry count N the call started with (zero, positive or
\* negative) and whatever the sends answer, callRequest, once it is sending,
\* eventually returns to DoRequest, and it has then made at most max(N,0)+1
\* sends.
C20_LoopTerminates ==
    /\ [](execCalls = 1 => Len(sent) <= Max0(pre.retryCount) + 1)
    /\ (pc = "call") ~> (pc = "sync")

C20_Witness ==
    /\ pc = "sync"
    /\ pre.retryCount = -1
    /\ Len(sent) = 1
    /\ sent[1].err # ""

====
